---- MODULE Spec2Model ----
(***************************************************************************)
(* Model of the heatmap matrix panel (src/src/HeatmapPanel.tsx).           *)
(*                                                                         *)
(* Numbers.  Raw table values are integers counting thousandths, the       *)
(* values produced by formatValue ('.2f' then parseFloat) are integers     *)
(* counting hundredths.  A ratio is a pair <<num, den>>; den = 0 stands    *)
(* for the non-finite results of a division by zero (Infinity for num > 0, *)
(* -Infinity for num < 0, NaN for num = 0).                                *)
(* Row indices are 0-based as in the source.                               *)
(***************************************************************************)
EXTENDS Integers, Sequences, FiniteSets, TLC

VARIABLES
    frame,        \* data.series[0] as captured by the closures of config's call
    config,       \* the config object of the call that drew the DOM
    dom,          \* children of the <svg> node
    input,        \* data.series[0] of the last call of the component
    error,        \* what the last call of the component threw, if it did
    clicks,       \* history: clicks on cells since the drawing was made
    snaps,        \* history: the fills after the render and after each click
    prevColorBy   \* history: colorBy of the drawing the last render replaced, until a
                  \* click (-1: none)

vars == <<frame, config, dom, input, error, clicks, snaps, prevColorBy>>

-----------------------------------------------------------------------------
(* Bounds of the model *)

MaxCells == 3
MaxClicks == 3

-----------------------------------------------------------------------------
(* Chart constants, lines 11-14 *)

CHART_REQUIRED_FIELDS == <<"pivot">>

PERCENTAGE_CHANGE_DIRECTION == {"topToBottom", "bottomToTop"}

COLOR_CELL_BY == [change |-> 0, heatmap |-> 1]

COLOR_OPTIONS_SIZE_plusOne == Cardinality(DOMAIN COLOR_CELL_BY) + 1

\* Object.keys(COLOR_CELL_BY).length
COLOR_OPTIONS_SIZE == Cardinality(DOMAIN COLOR_CELL_BY)

-----------------------------------------------------------------------------
(* Arithmetic helpers *)

Abs(n) == IF n < 0 THEN -n ELSE n

Sign(n) == IF n < 0 THEN -1 ELSE IF n > 0 THEN 1 ELSE 0

RECURSIVE Gcd(_, _)
Gcd(a, b) == IF b = 0 THEN a ELSE Gcd(b, a % b)

\* a ratio with a positive denominator in lowest terms
Normal(q) ==
    LET s == Sign(q[2])
        g == Gcd(Abs(q[1]), Abs(q[2]))
    IN  <<(s * q[1]) \div g, (s * q[2]) \div g>>

\* Number.prototype.toFixed: the nearest multiple, a tie away from zero
RoundDiv(n, d) == Sign(n) * ((2 * Abs(n) + d) \div (2 * d))

\* Math.round of num/den, den > 0: the nearest integer, a tie upwards
MathRound(num, den) == (2 * num + den) \div (2 * den)

RECURSIVE SumSeq(_)
SumSeq(s) == IF s = <<>> THEN 0 ELSE Head(s) + SumSeq(Tail(s))

RECURSIVE SeqMin(_)
SeqMin(s) ==
    IF Len(s) = 1 THEN s[1]
    ELSE LET m == SeqMin(Tail(s)) IN IF s[1] < m THEN s[1] ELSE m

RECURSIVE SeqMax(_)
SeqMax(s) ==
    IF Len(s) = 1 THEN s[1]
    ELSE LET m == SeqMax(Tail(s)) IN IF s[1] > m THEN s[1] ELSE m

RECURSIVE Concat(_)
Concat(ss) == IF ss = <<>> THEN <<>> ELSE Head(ss) \o Concat(Tail(ss))

\* Array.prototype.find / indexOf: the 1-based position of the first match, 0 if none
FirstIndex(s, e) ==
    IF \E i \in 1..Len(s) : s[i] = e
    THEN CHOOSE i \in 1..Len(s) : s[i] = e /\ \A j \in 1..(i - 1) : s[j] # e
    ELSE 0

\* the domain of a band scale: the values in order, repeats dropped
RECURSIVE Dedupe(_)
Dedupe(s) ==
    IF s = <<>> THEN <<>>
    ELSE LET front == Dedupe(SubSeq(s, 1, Len(s) - 1))
             last  == s[Len(s)]
         IN  IF FirstIndex(front, last) # 0 THEN front ELSE Append(front, last)

-----------------------------------------------------------------------------
(* The input tables the model draws from *)

Values == {-1000, 0, 4, 1000, 2006}

CategoryNames == <<"X", "Y", "Z", "W", "V", "U">>

PivotNames == <<"A", "B", "C", "D", "E", "F">>

PivotField(rows) == [name |-> "pivot", values |-> SubSeq(PivotNames, 1, rows)]

\* the tables of rows x cols cells over Values, the pivot column first when present
FramesOf(rows, cols, hasPivot) ==
    { [length |-> rows,
       fields |-> (IF hasPivot THEN <<PivotField(rows)>> ELSE <<>>)
                  \o [c \in 1..cols |-> [name |-> CategoryNames[c], values |-> m[c]]]]
      : m \in [1..cols -> [1..rows -> Values]] }

Shapes == { rc \in (0..MaxCells) \X (0..MaxCells) : rc[1] * rc[2] <= MaxCells }

Frames == UNION { FramesOf(rc[1], rc[2], hp) : rc \in Shapes, hp \in BOOLEAN }

\* the scenario table: pivot [A, B, C], X = [10, 20, 0]
ScenarioFrame ==
    [length |-> 3,
     fields |-> <<PivotField(3), [name |-> "X", values |-> <<10000, 20000, 0>>]>>]

\* a table whose pivot column repeats a value, and whose second column sums to 0
RepeatedPivotFrame ==
    [length |-> 2,
     fields |-> <<[name |-> "pivot", values |-> <<"A", "A">>],
                  [name |-> "X", values |-> <<1000, 2006>>],
                  [name |-> "Y", values |-> <<-1000, 1000>>]>>]

SampleFrames == {ScenarioFrame, RepeatedPivotFrame}

DropPivot(f) ==
    [f EXCEPT !.fields = SelectSeq(f.fields, LAMBDA fld : fld.name # "pivot")]

Options == [changeDirection : PERCENTAGE_CHANGE_DIRECTION, toggleColor : BOOLEAN]

-----------------------------------------------------------------------------
(* Chart configuration, lines 17-33 *)

referenceChange_inverted(changeDirection) ==
    IF changeDirection = "bottomToTop" THEN -1 ELSE 1

referenceChange(changeDirection) ==
    IF changeDirection = "bottomToTop" THEN 1 ELSE -1

Config(opts) ==
    [background      |-> "white",
     removeEmptyCols |-> TRUE,
     changeDirection |-> opts.changeDirection,
     colorBy         |-> COLOR_CELL_BY.change,
     toggleColor     |-> opts.toggleColor,
     referenceChange |-> referenceChange(opts.changeDirection)]

-----------------------------------------------------------------------------
(* Accessors and field values, lines 36-56 *)

\* frame.fields.find(field => field.name === 'pivot'): 0 stands for undefined
pivotAccesor(f) ==
    FirstIndex([i \in 1..Len(f.fields) |-> f.fields[i].name], "pivot")

baseCategoryFields(f) == SelectSeq(f.fields, LAMBDA fld : fld.name # "pivot")

categoryFields_nonzeroSum(f, cfg) ==
    IF ~cfg.removeEmptyCols THEN baseCategoryFields(f)
    ELSE SelectSeq(baseCategoryFields(f), LAMBDA fld : SumSeq(fld.values) # 0)

categoryFields(f, cfg) ==
    IF ~cfg.removeEmptyCols THEN baseCategoryFields(f)
    ELSE SelectSeq(baseCategoryFields(f), LAMBDA fld : SumSeq(fld.values) > 0)

pivots(f) == f.fields[pivotAccesor(f)].values

categories(flds) == [i \in 1..Len(flds) |-> flds[i].name]

pivotIndices(f) == [i \in 1..f.length |-> i - 1]

\* d3.extent of the per-column extents: [undefined, undefined] (here <<0, 0>>, never
\* read: there is no cell then) when no column is kept
categoryExtent(flds) ==
    LET flat == Concat([i \in 1..Len(flds) |->
                           <<SeqMin(flds[i].values), SeqMax(flds[i].values)>>])
    IN  IF flds = <<>> THEN <<0, 0>> ELSE <<SeqMin(flat), SeqMax(flat)>>

\* the constants of one call of the component that its closures capture
Scope(f, cfg) ==
    [pivotValues    |-> pivots(f),
     categoryFields |-> categoryFields(f, cfg),
     categories     |-> categories(categoryFields(f, cfg)),
     pivotIndices   |-> pivotIndices(f),
     categoryExtent |-> categoryExtent(categoryFields(f, cfg)),
     xDomain        |-> Dedupe(categories(categoryFields(f, cfg))),
     yDomain        |-> Dedupe(pivots(f))]

-----------------------------------------------------------------------------
(* Colour scales, lines 73-85 *)

\* d3.interpolateRgb(a, b)(un/ud), ud > 0: each channel linear, rounded on output
interpolateRgb(a, b, un, ud) ==
    [k \in 1..3 |-> MathRound(a[k] * ud + (b[k] - a[k]) * un, ud)]

\* scaleLinear().domain([-1.5, 0, 1.5]).range(['red', 'rgb(250, 248, 193)', 'green'])
\* at t = q[1]/q[2], q[2] > 0: below 0 the first segment, from 0 on the second
colorByChange(q) ==
    [by  |-> "colorByChange",
     rgb |-> IF q[1] < 0
             THEN interpolateRgb(<<255, 0, 0>>, <<250, 248, 193>>,
                                 2 * q[1] + 3 * q[2], 3 * q[2])
             ELSE interpolateRgb(<<250, 248, 193>>, <<0, 128, 0>>,
                                 2 * q[1], 3 * q[2])]

\* scaleSequential().domain(extent).interpolator(t => interpolateBlues(0.7 * t))
\* at the hundredths value v: the fill is the palette colour at parameter 0.7 * t,
\* t = (v - x0) / (x1 - x0), and t = 0 when x0 = x1; the scale does not clamp t
colorAsHeatmap(extent, v) ==
    [by |-> "interpolateBlues",
     t  |-> IF extent[1] = extent[2] THEN <<0, 1>>
            ELSE Normal(<<7 * (10 * v - extent[1]), 10 * (extent[2] - extent[1])>>)]

-----------------------------------------------------------------------------
(* Value formatting, lines 127-136 *)

Get_wraps(values, i) ==
    IF values = <<>> THEN [undefined |-> TRUE, v |-> 0]
    ELSE [undefined |-> FALSE, v |-> values[(i % Len(values)) + 1]]

\* field.values.get(i) of a vector: undefined outside [0, length)
Get(values, i) ==
    IF i \in 0..(Len(values) - 1)
    THEN [undefined |-> FALSE, v |-> values[i + 1]]
    ELSE [undefined |-> TRUE, v |-> 0]

\* parseFloat(d3.format('.2f')(value)): the value in hundredths, NaN for undefined
formatValue(sc, d) ==
    LET flds  == sc.categoryFields
        field == flds[FirstIndex([i \in 1..Len(flds) |-> flds[i].name], d.category)]
        raw   == Get(field.values, d.pivotIndex)
    IN  IF raw.undefined THEN [nan |-> TRUE, v |-> 0]
        ELSE [nan |-> FALSE, v |-> RoundDiv(raw.v, 10)]

getValues(sc, cfg, d) ==
    LET referenceIndex == d.pivotIndex + cfg.referenceChange
        currentValue   == formatValue(sc, d).v
        ref            == formatValue(sc, [d EXCEPT !.pivotIndex = referenceIndex])
        referenceValue == IF ref.nan \/ ref.v = 0 THEN 0 ELSE ref.v
    IN  [currentValue   |-> currentValue,
         referenceValue |-> referenceValue,
         change         |-> <<currentValue - referenceValue, referenceValue>>]

-----------------------------------------------------------------------------
(* Colour selection, lines 156-182 *)

\* change > 1 and change < -1 on a ratio; every comparison with NaN is false
GreaterThanOne(ch) ==
    IF ch[2] > 0 THEN ch[1] > ch[2]
    ELSE IF ch[2] < 0 THEN ch[1] < ch[2]
    ELSE ch[1] > 0

LessThanMinusOne(ch) ==
    IF ch[2] > 0 THEN ch[1] < -ch[2]
    ELSE IF ch[2] < 0 THEN ch[1] > -ch[2]
    ELSE ch[1] < 0

clampedChange_unclamped(ch) == ch

clampedChange(ch) ==
    IF GreaterThanOne(ch) THEN <<1, 1>>
    ELSE IF LessThanMinusOne(ch) THEN <<-1, 1>>
    ELSE ch

colorChange_referenceFirst(sc, cfg, d) ==
    LET v == getValues(sc, cfg, d)
    IN  IF v.referenceValue = 0 THEN colorByChange(<<1, 2>>)
        ELSE IF v.currentValue = 0 THEN colorByChange(<<0, 1>>)
        ELSE colorByChange(Normal(clampedChange(v.change)))

colorChange_noReferenceCase(sc, cfg, d) ==
    LET v == getValues(sc, cfg, d)
    IN  IF v.currentValue = 0 THEN colorByChange(<<0, 1>>)
        ELSE colorByChange(Normal(clampedChange(v.change)))

colorChange(sc, cfg, d) ==
    LET v == getValues(sc, cfg, d)
    IN  IF v.currentValue = 0 THEN colorByChange(<<0, 1>>)
        ELSE IF v.referenceValue = 0 THEN colorByChange(<<1, 2>>)
        ELSE colorByChange(Normal(clampedChange(v.change)))

colorHeatmap(sc, cfg, d) ==
    colorAsHeatmap(sc.categoryExtent, getValues(sc, cfg, d).currentValue)

\* the switch has no default result: any other colorBy leaves the fill unset
getColor(sc, cfg, d) ==
    IF cfg.colorBy = COLOR_CELL_BY.change THEN colorChange(sc, cfg, d)
    ELSE IF cfg.colorBy = COLOR_CELL_BY.heatmap THEN colorHeatmap(sc, cfg, d)
    ELSE [by |-> "undefined"]

-----------------------------------------------------------------------------
(* Labels, lines 226-256 *)

RECURSIVE Scale3(_)
Scale3(n) == IF n < 1000 THEN 1 ELSE 10 * Scale3(n \div 10)

\* d3.format('.3~s'): the value kept to 3 significant digits (the SI suffix and
\* the trimming of zeros are the library's rendering of that number)
Sig3(c) == RoundDiv(c, Scale3(Abs(c))) * Scale3(Abs(c))

\* d3.format('.1%'): (change * 100).toFixed(1), counted in tenths of a percent
Percent1(ch) == RoundDiv(1000 * Normal(ch)[1], Normal(ch)[2])

\* the first tspan: the value, or the dash when currentValue is falsy
valueLine(v) ==
    [dy   |-> IF v.currentValue # 0 /\ v.referenceValue # 0 THEN "-0.4em" ELSE ".35em",
     dash |-> v.currentValue = 0,
     si   |-> IF v.currentValue # 0 THEN Sig3(v.currentValue) ELSE 0]

\* the second tspan: text is set only when both values are truthy
percentLine(v) ==
    IF v.currentValue # 0 /\ v.referenceValue # 0
    THEN [drawn |-> TRUE, pct |-> Percent1(v.change)]
    ELSE [drawn |-> FALSE, pct |-> 0]

-----------------------------------------------------------------------------
(* The chart, lines 139-262 *)

EmptySvg == [background |-> "none", cells |-> <<>>, xAxis |-> <<>>, yAxis |-> <<>>]

\* one <g> of a row: the rect (position, fill, title) and the two text lines;
\* x and y are the 0-based bands of the cell in the domains of the band scales
cell(sc, cfg, d) ==
    [category   |-> d.category,
     pivotIndex |-> d.pivotIndex,
     x          |-> FirstIndex(sc.xDomain, d.category) - 1,
     y          |-> FirstIndex(sc.yDomain, sc.pivotValues[d.pivotIndex + 1]) - 1,
     fill       |-> getColor(sc, cfg, d),
     title      |-> formatValue(sc, d).v,
     line1      |-> valueLine(getValues(sc, cfg, d)),
     line2      |-> percentLine(getValues(sc, cfg, d))]

\* rows in the order of pivotIndices, and in each row the categories in order
chart(sc, cfg) ==
    LET n == Len(sc.categories)
    IN  [background |-> cfg.background,
         cells      |-> [k \in 1..(Len(sc.pivotIndices) * n) |->
                            cell(sc, cfg, [category   |-> sc.categories[((k - 1) % n) + 1],
                                           pivotIndex |-> sc.pivotIndices[((k - 1) \div n) + 1]])],
         xAxis      |-> sc.xDomain,
         yAxis      |-> sc.yDomain]

Fills(d) == [k \in 1..Len(d.cells) |-> d.cells[k].fill]

\* bounds.selectAll('.matrix-cell').transition().attr('fill', getColor): the fill
\* every cell of the drawing ends the transition with
recolor(sc, cfg, d) ==
    [d EXCEPT !.cells = [k \in 1..Len(d.cells) |->
        [d.cells[k] EXCEPT !.fill = getColor(sc, cfg, [category   |-> d.cells[k].category,
                                                      pivotIndex |-> d.cells[k].pivotIndex])]]]

NoError == [thrown |-> FALSE, message |-> "", fields |-> <<>>]

RequiredFieldsError ==
    [thrown  |-> TRUE,
     message |-> "Required fields not present: ",
     fields  |-> CHART_REQUIRED_FIELDS]

-----------------------------------------------------------------------------
(* The state machine *)

\* the first call of the component on an empty <svg>
Init ==
    \E f \in Frames, opts \in Options :
        /\ frame = f
        /\ input = f
        /\ config = Config(opts)
        /\ dom = IF pivotAccesor(f) = 0 THEN EmptySvg ELSE chart(Scope(f, Config(opts)), Config(opts))
        /\ error = IF pivotAccesor(f) = 0 THEN RequiredFieldsError ELSE NoError
        /\ clicks = 0
        /\ snaps = <<Fills(dom)>>
        /\ prevColorBy = -1

\* the table a later call of the component may bring
NextFrames == {frame, DropPivot(frame)} \cup SampleFrames

RenderThrows_afterClear ==
    \E f \in NextFrames :
        /\ pivotAccesor(f) = 0
        /\ input' = f
        /\ error' = RequiredFieldsError
        /\ dom' = EmptySvg
        /\ UNCHANGED <<frame, config, clicks, snaps, prevColorBy>>

\* a call of the component that throws at the validation, line 47: the element is
\* never returned, so the ref callback does not run
RenderThrows ==
    \E f \in NextFrames :
        /\ pivotAccesor(f) = 0
        /\ input' = f
        /\ error' = RequiredFieldsError
        /\ UNCHANGED <<frame, config, dom, clicks, snaps, prevColorBy>>

RenderDraws_sharedConfig ==
    \E f \in NextFrames, opts \in Options :
        /\ pivotAccesor(f) # 0
        /\ frame' = f
        /\ input' = f
        /\ config' = [Config(opts) EXCEPT !.colorBy = config.colorBy]
        /\ dom' = chart(Scope(f, config'), config')
        /\ error' = NoError
        /\ clicks' = 0
        /\ snaps' = <<Fills(dom')>>
        /\ prevColorBy' = IF dom = EmptySvg THEN -1 ELSE config.colorBy

\* a call of the component that returns: the ref callback removes every child of
\* the <svg> and calls chart with the new closure
RenderDraws ==
    \E f \in NextFrames, opts \in Options :
        /\ pivotAccesor(f) # 0
        /\ frame' = f
        /\ input' = f
        /\ config' = Config(opts)
        /\ dom' = chart(Scope(f, Config(opts)), Config(opts))
        /\ error' = NoError
        /\ clicks' = 0
        /\ snaps' = <<Fills(dom')>>
        /\ prevColorBy' = IF dom = EmptySvg THEN -1 ELSE config.colorBy

ClickIgnored_noEarlyReturn ==
    \E k \in 1..Len(dom.cells) :
        /\ clicks < MaxClicks
        /\ ~error.thrown
        /\ ~config.toggleColor
        /\ config' = [config EXCEPT !.colorBy = (config.colorBy + 1) % COLOR_OPTIONS_SIZE]
        /\ dom' = recolor(Scope(frame, config'), config', dom)
        /\ clicks' = clicks + 1
        /\ snaps' = Append(snaps, Fills(dom'))
        /\ prevColorBy' = -1
        /\ UNCHANGED <<frame, input, error>>

\* toggleColoring with toggleColor false: the early return.  A drawing whose
\* component threw on a later call is off the page and takes no click.
ClickIgnored ==
    \E k \in 1..Len(dom.cells) :
        /\ clicks < MaxClicks
        /\ ~error.thrown
        /\ ~config.toggleColor
        /\ clicks' = clicks + 1
        /\ snaps' = Append(snaps, Fills(dom))
        /\ prevColorBy' = -1
        /\ UNCHANGED <<frame, config, dom, input, error>>

ClickToggles_clickedRowOnly ==
    \E k \in 1..Len(dom.cells) :
        /\ clicks < MaxClicks
        /\ ~error.thrown
        /\ config.toggleColor
        /\ config' = [config EXCEPT !.colorBy = (config.colorBy + 1) % COLOR_OPTIONS_SIZE]
        /\ dom' = [dom EXCEPT !.cells = [j \in 1..Len(dom.cells) |->
                      IF dom.cells[j].pivotIndex = dom.cells[k].pivotIndex
                      THEN recolor(Scope(frame, config'), config', dom).cells[j]
                      ELSE dom.cells[j]]]
        /\ clicks' = clicks + 1
        /\ snaps' = Append(snaps, Fills(dom'))
        /\ prevColorBy' = -1
        /\ UNCHANGED <<frame, input, error>>

ClickToggles_staleMode ==
    \E k \in 1..Len(dom.cells) :
        /\ clicks < MaxClicks
        /\ ~error.thrown
        /\ config.toggleColor
        /\ config' = [config EXCEPT !.colorBy = (config.colorBy + 1) % COLOR_OPTIONS_SIZE]
        /\ dom' = recolor(Scope(frame, config), config, dom)
        /\ clicks' = clicks + 1
        /\ snaps' = Append(snaps, Fills(dom'))
        /\ prevColorBy' = -1
        /\ UNCHANGED <<frame, input, error>>

\* toggleColoring with toggleColor true, on the click of cell k
ClickToggles ==
    \E k \in 1..Len(dom.cells) :
        /\ clicks < MaxClicks
        /\ ~error.thrown
        /\ config.toggleColor
        /\ config' = [config EXCEPT !.colorBy = (config.colorBy + 1) % COLOR_OPTIONS_SIZE]
        /\ dom' = recolor(Scope(frame, config'), config', dom)
        /\ clicks' = clicks + 1
        /\ snaps' = Append(snaps, Fills(dom'))
        /\ prevColorBy' = -1
        /\ UNCHANGED <<frame, input, error>>

Next == RenderThrows \/ RenderDraws \/ ClickIgnored \/ ClickToggles

Spec == Init /\ [][Next]_vars

-----------------------------------------------------------------------------
(* Reading the drawing and the table, for the properties below *)

Change == COLOR_CELL_BY.change

Heatmap == COLOR_CELL_BY.heatmap

Drawn == dom # EmptySvg

Cells == {dom.cells[k] : k \in 1..Len(dom.cells)}

\* the non-pivot columns of the table the drawing was made from
Columns == {frame.fields[i] : i \in {j \in 1..Len(frame.fields) : frame.fields[j].name # "pivot"}}

Total(values) == SumSeq(values)

\* the row the change of cell c is measured against
ReferenceRow(c) ==
    IF config.changeDirection = "bottomToTop" THEN c.pivotIndex + 1 ELSE c.pivotIndex - 1

\* the rounded value shown (as the tooltip) by the cell of c's category at row i,
\* 0 when there is no such row
ShownAt(c, i) ==
    IF \E r \in Cells : r.category = c.category /\ r.pivotIndex = i
    THEN (CHOOSE r \in Cells : r.category = c.category /\ r.pivotIndex = i).title
    ELSE 0

ReferenceOf(c) == ShownAt(c, ReferenceRow(c))

\* the column of the table with the given name, and its place among the fields
Column(name) == CHOOSE col \in Columns : col.name = name

FieldIndex(name) == CHOOSE i \in 1..Len(frame.fields) : frame.fields[i].name = name

Kept == {col \in Columns : Total(col.values) > 0}

KeptValues == UNION {{col.values[i] : i \in 1..Len(col.values)} : col \in Kept}

Lowest(S) == CHOOSE v \in S : \A w \in S : v <= w

Highest(S) == CHOOSE v \in S : \A w \in S : v >= w

NeutralFill == [by |-> "colorByChange", rgb |-> <<250, 248, 193>>]

IndeterminateFill == [by |-> "colorByChange", rgb |-> <<167, 208, 129>>]

-----------------------------------------------------------------------------
(* Properties *)

\* C1: with toggleColor true, after n clicks since the render the mode is byChange
\* for even n and byHeatmap for odd n; the mode is never any third value.
C1_ModeFollowsClickParity ==
    /\ config.colorBy \in {Change, Heatmap}
    /\ config.toggleColor =>
          config.colorBy = (IF clicks % 2 = 0 THEN Change ELSE Heatmap)

C1_Witness ==
    /\ config.toggleColor
    /\ clicks >= 3
    /\ config.colorBy = Heatmap
    /\ Cells # {}

\* C2: with toggleColor false, after any sequence of clicks the mode is still
\* byChange and every cell has the fill the render gave it.
C2_ClicksIgnoredWhenToggleOff ==
    ~config.toggleColor =>
        /\ config.colorBy = Change
        /\ \A n \in 1..Len(snaps) : snaps[n] = snaps[1]
        /\ Fills(dom) = snaps[1]

C2_Witness ==
    /\ ~config.toggleColor
    /\ clicks >= 2
    /\ Cells # {}

\* C3: with toggleColor true, two further clicks leave every cell with the fill it
\* had before them.
C3_TwoClicksRestoreFills ==
    config.toggleColor =>
        \A n \in 1..(Len(snaps) - 2) : snaps[n + 2] = snaps[n]

C3_Witness ==
    /\ config.toggleColor
    /\ clicks >= 3
    /\ snaps[2] # snaps[1]
    /\ snaps[4] = snaps[2]

\* C4: a full render starts in mode byChange with every cell filled by change,
\* whatever mode the drawing it replaces was left in.
C4_RenderStartsByChange ==
    (Drawn /\ clicks = 0) =>
        /\ config.colorBy = Change
        /\ \A c \in Cells : c.fill.by = "colorByChange"

C4_Witness ==
    /\ prevColorBy = Heatmap
    /\ clicks = 0
    /\ config.colorBy = Change
    /\ Cells # {}

\* C5: the categories drawn are exactly the non-pivot columns with a strictly positive
\* total, in table order; a column with total 0 is neither on the horizontal axis nor
\* in a cell, nor among the values the heatmap colour domain is the min/max of.
C5_PrunedCategories ==
    Drawn =>
        /\ \A i \in 1..Len(dom.xAxis) : \E col \in Kept : col.name = dom.xAxis[i]
        /\ \A col \in Kept : \E i \in 1..Len(dom.xAxis) : dom.xAxis[i] = col.name
        /\ \A i, j \in 1..Len(dom.xAxis) :
              i < j => FieldIndex(dom.xAxis[i]) < FieldIndex(dom.xAxis[j])
        /\ \A c \in Cells : Column(c.category) \in Kept
        /\ config.colorBy = Heatmap =>
              \A c \in Cells :
                  c.fill = colorAsHeatmap(<<Lowest(KeptValues), Highest(KeptValues)>>, c.title)

C5_Witness ==
    /\ Drawn
    /\ config.colorBy = Heatmap
    /\ \E col \in Columns \ Kept, before \in Kept, after \in Kept :
          /\ FieldIndex(before.name) < FieldIndex(col.name)
          /\ FieldIndex(col.name) < FieldIndex(after.name)
          /\ \E i \in 1..Len(col.values) : col.values[i] < Lowest(KeptValues)

\* C6: a call on a table with no "pivot" column throws an error naming the field
\* "pivot", and that call changes nothing of the drawing: nothing is cleared and no
\* cell, label or axis is drawn.
C6_MissingPivotThrowsBeforeDrawing ==
    /\ [](pivotAccesor(input) = 0 =>
            /\ error.thrown
            /\ \E i \in 1..Len(error.fields) : error.fields[i] = "pivot")
    /\ [][pivotAccesor(input') = 0 => dom' = dom]_vars

C6_Witness ==
    /\ pivotAccesor(input) = 0
    /\ error.thrown
    /\ Cells # {}
    /\ dom.xAxis # <<>>

\* C7: a cell whose currentValue is 0 shows the dash, has no percentage line, and
\* under byChange has the colour of the change scale at 0, whatever its reference.
C7_ZeroCurrentValue ==
    \A c \in Cells :
        c.title = 0 =>
            /\ c.line1.dash
            /\ ~c.line2.drawn
            /\ config.colorBy = Change => c.fill = NeutralFill

C7_Witness ==
    /\ config.colorBy = Change
    /\ \E c \in Cells : c.title = 0 /\ ReferenceOf(c) # 0
    /\ \E c \in Cells : c.title = 0 /\ ReferenceOf(c) = 0

\* C8: a cell with referenceValue 0 (its reference row missing included) and
\* currentValue not 0 has, under byChange, the colour of the change scale at 0.5,
\* and no percentage line.
C8_ZeroReferenceValue ==
    \A c \in Cells :
        (c.title # 0 /\ ReferenceOf(c) = 0) =>
            /\ ~c.line2.drawn
            /\ config.colorBy = Change => c.fill = IndeterminateFill

C8_Witness ==
    /\ config.colorBy = Change
    /\ \E c \in Cells :
          /\ c.title # 0
          /\ ReferenceRow(c) \in 0..(frame.length - 1)
          /\ ReferenceOf(c) = 0
    /\ \E c \in Cells :
          /\ c.title # 0
          /\ ReferenceRow(c) \notin 0..(frame.length - 1)

\* C9: with currentValue and referenceValue both non-zero, change is
\* (currentValue - referenceValue) / referenceValue; the by-change colour is the one
\* of the scale at change clamped to [-1, 1], and the percentage line is the
\* unclamped change to the nearest tenth of a percent.
C9_ChangeClampedForColourOnly ==
    \A c \in Cells :
        LET cur   == c.title
            ref   == ReferenceOf(c)
            num   == cur - ref
            above == (ref > 0 /\ num > ref) \/ (ref < 0 /\ num < ref)
            below == (ref > 0 /\ num < -ref) \/ (ref < 0 /\ num > -ref)
        IN  (cur # 0 /\ ref # 0) =>
                /\ c.line2.drawn
                /\ 2 * Abs(1000 * num - c.line2.pct * ref) <= Abs(ref)
                /\ config.colorBy = Change =>
                      c.fill = IF above THEN [by |-> "colorByChange", rgb |-> <<83, 168, 64>>]
                               ELSE IF below THEN [by |-> "colorByChange", rgb |-> <<253, 83, 64>>]
                               ELSE colorByChange(Normal(<<num, ref>>))

C9_Witness ==
    /\ config.colorBy = Change
    /\ \E c \in Cells :
          /\ c.title # 0
          /\ ReferenceOf(c) > 0
          /\ c.title - ReferenceOf(c) > ReferenceOf(c)
          /\ c.line2.pct > 1000
    /\ \E c \in Cells :
          /\ c.title # 0
          /\ ReferenceOf(c) # 0
          /\ c.line2.pct \in (-999)..(-1)

\* C10: the reference value of cell (category, pivotIndex) is the category's value at
\* row pivotIndex + 1 under bottomToTop and at row pivotIndex - 1 under topToBottom,
\* and 0 when there is no such row; for X = [10, 20, 0] over [A, B, C] under
\* bottomToTop, cell (X, A) has reference 20 and change -0.5.
C10_ReferenceRow ==
    Drawn =>
        /\ \A c \in Cells :
              getValues(Scope(frame, config), config,
                        [category |-> c.category, pivotIndex |-> c.pivotIndex]).referenceValue
                  = ReferenceOf(c)
        /\ (frame = ScenarioFrame /\ config.changeDirection = "bottomToTop") =>
              /\ getValues(Scope(frame, config), config, [category |-> "X", pivotIndex |-> 0])
                    = [currentValue |-> 1000, referenceValue |-> 2000, change |-> <<-1000, 2000>>]
              /\ dom.cells[1].line2 = [drawn |-> TRUE, pct |-> -500]

C10_Witness ==
    /\ Drawn
    /\ frame = ScenarioFrame
    /\ config.changeDirection = "bottomToTop"
    /\ dom.cells[1].line2.pct = -500
    /\ ReferenceOf(dom.cells[3]) = 0

\* C11: with toggleColor true every cell of the drawing, in every row and category,
\* has its own colour under the active mode after any sequence of clicks; a click
\* changes nothing but fills: positions, axes, both label lines and tooltips stay.
C11_ClickRecoloursEveryCellOnly ==
    /\ [](config.toggleColor =>
            /\ config.colorBy = Change => Fills(dom) = snaps[1]
            /\ config.colorBy = Heatmap =>
                  \A c \in Cells :
                      c.fill = colorAsHeatmap(Scope(frame, config).categoryExtent, c.title))
    /\ [][clicks' = clicks + 1 =>
            /\ Len(dom'.cells) = Len(dom.cells)
            /\ \A k \in 1..Len(dom.cells) :
                  [dom'.cells[k] EXCEPT !.fill = dom.cells[k].fill] = dom.cells[k]
            /\ dom'.xAxis = dom.xAxis
            /\ dom'.yAxis = dom.yAxis
            /\ dom'.background = dom.background]_vars

C11_Witness ==
    /\ config.toggleColor
    /\ config.colorBy = Heatmap
    /\ clicks >= 1
    /\ snaps[2] # snaps[1]
    /\ \E c1, c2 \in Cells : c1.pivotIndex # c2.pivotIndex /\ c1.fill # c2.fill

\* the raw table value behind cell c
RawOf(c) == Column(c.category).values[c.pivotIndex + 1]

\* cell c has no reference row: the last row under bottomToTop, the first under
\* topToBottom
AtBoundary(c) == ReferenceRow(c) \notin 0..(frame.length - 1)

\* C12: under byHeatmap the palette parameter of every cell lies within [0, 0.7];
\* the cell holding the global minimum of the kept raw values gets 0 and the one
\* holding the global maximum gets 0.7 (where the two differ).
C12_HeatmapParameterWithinRange ==
    (Drawn /\ config.colorBy = Heatmap) =>
        \A c \in Cells :
            /\ 0 <= c.fill.t[1]
            /\ 10 * c.fill.t[1] <= 7 * c.fill.t[2]
            /\ Lowest(KeptValues) < Highest(KeptValues) =>
                  /\ RawOf(c) = Lowest(KeptValues) => c.fill.t = <<0, 1>>
                  /\ RawOf(c) = Highest(KeptValues) => c.fill.t = <<7, 10>>

\* C13 as stated: at a sequence boundary a cell with a non-zero current value is
\* displayed as a 100% decrease.
C13_BoundaryShowsFullDecrease ==
    \A c \in Cells :
        (AtBoundary(c) /\ c.title # 0) =>
            /\ c.line2.drawn
            /\ c.line2.pct = -1000

\* C13, amended: at a sequence boundary a cell with a non-zero current value shows
\* its value alone, with no percentage line, and under byChange has the colour of
\* the change scale at 0.5.
C13_BoundaryShowsNoPercentage ==
    \A c \in Cells :
        (AtBoundary(c) /\ c.title # 0) =>
            /\ ~c.line2.drawn
            /\ ~c.line1.dash
            /\ c.line1.dy = ".35em"
            /\ config.colorBy = Change => c.fill = IndeterminateFill

C13_Witness ==
    /\ config.colorBy = Change
    /\ frame.length >= 2
    /\ \E c \in Cells : AtBoundary(c) /\ c.title # 0 /\ c.pivotIndex = frame.length - 1
    /\ \E c \in Cells : ~AtBoundary(c) /\ c.line2.drawn

\* C14: a category column is left out of the grid if and only if every one of its
\* values is zero; a column with a non-zero value, negative ones included, is drawn.
C14_PrunesExactlyAllZeroColumns ==
    Drawn =>
        \A col \in Columns :
            (\E i \in 1..Len(dom.xAxis) : dom.xAxis[i] = col.name)
                <=> (\E i \in 1..Len(col.values) : col.values[i] # 0)

\* C15: row i is drawn in the i-th band from the top, a smaller index strictly
\* above a larger one, so no two rows share a vertical position; the direction
\* changes no cell's position.
C15_RowsInDistinctBands ==
    Drawn =>
        /\ \A c \in Cells : c.y = c.pivotIndex
        /\ \A c1, c2 \in Cells : c1.pivotIndex < c2.pivotIndex => c1.y < c2.y
        /\ \A dir \in PERCENTAGE_CHANGE_DIRECTION :
              LET other == Config([changeDirection |-> dir, toggleColor |-> config.toggleColor])
                  drawn == chart(Scope(frame, other), other)
              IN  \A k \in 1..Len(dom.cells) :
                      /\ drawn.cells[k].x = dom.cells[k].x
                      /\ drawn.cells[k].y = dom.cells[k].y

====
